---------------------------- MODULE Spec2Model ----------------------------
(***************************************************************************)
(* Model of pytorch/containers/custom_container/task.py: the training      *)
(* loop train(), the binarization set_value_(), the evaluation loop test() *)
(* and the orchestrator task().                                            *)
(*                                                                         *)
(* Floating point values are fixed-point integers in thousandths: 1.0 is   *)
(* One, 0.5 is Half.  A tensor is a sequence of such values.  The tensor   *)
(* library (forward pass, BCELoss, autograd, SGD) is not part of the       *)
(* repository; it is represented by small deterministic integer            *)
(* functions that keep the properties the code relies on: the forward      *)
(* pass returns a fresh tensor of probabilities, backward() ADDS to the    *)
(* pending gradient, step() changes the parameters by the pending          *)
(* gradient, BCELoss clamps log at -100.                                   *)
(***************************************************************************)
EXTENDS Integers, Sequences, FiniteSets, TLC

\* ------------------------------------------------------------------ bounds
MaxEpochs == 2
MaxTrainBatches == 7
MaxTaskTrainBatches == 1
MaxTest == 3
MaxTaskTest == 1
MaxBatchSize == 2

\* ------------------------------------------------------- program constants
\* 1.0 in fixed point (thousandths): the value set_value_ returns at line 55
One == 1000
\* 0.5 in fixed point: the threshold of set_value_, line 52
Half == 500
\* "print every 6 mini-batches", line 44 (and the divisor of line 46)
ReportEvery == 6

\* ----------------------------------------------------------------- helpers
Min(a, b) == IF a < b THEN a ELSE b

RECURSIVE SumSeq(_)
SumSeq(s) == IF s = <<>> THEN 0 ELSE Head(s) + SumSeq(Tail(s))

\* ceil(n / d) for d > 0
CeilDiv(n, d) == (n + d - 1) \div d

\* ---------------------------------------------------------------- the data
\* A feature vector is abstracted to one small integer; a target is 0.0 or 1.0.
Features == 0..1
Targets == {0, One}
Examples == [features : Features, target : Targets]

RECURSIVE SeqsUpTo(_, _)
SeqsUpTo(S, n) ==
    IF n = 0 THEN {<<>>}
    ELSE LET shorter == SeqsUpTo(S, n - 1)
         IN  shorter \cup {Append(s, e) : s \in {t \in shorter : Len(t) = n - 1}, e \in S}

\* The batches a loader of `n` examples yields with batch size `bs`:
\* len(loader) = ceil(n / bs), the last one possibly short.
LoaderLen(n, bs) == CeilDiv(n, bs)
LoaderBatch(dataset, bs, k) ==
    SubSeq(dataset, k * bs + 1, Min((k + 1) * bs, Len(dataset)))

FeaturesOf(batch) == [j \in 1..Len(batch) |-> batch[j].features]
TargetOf(batch) == [j \in 1..Len(batch) |-> batch[j].target]

\* ------------------------------------------------------ the tensor library
\* The probabilities the network can output, and the parameter values.
Probs == <<100, 300, 500, 700, 900>>
ParamValues == 0..(Len(Probs) - 1)

\* net(features): a fresh tensor of one probability per example.
Forward(p, feats) ==
    [j \in 1..Len(feats) |-> Probs[((p + feats[j]) % Len(Probs)) + 1]]

\* -ln(q) in thousandths for q = 0.0, 0.1, ..., 1.0; log is clamped at -100.
NegLogTable == <<100000, 2303, 1609, 1204, 916, 693, 511, 357, 223, 105, 0>>
NegLog(q) == NegLogTable[(q \div 100) + 1]

\* nn.BCELoss()(input, target): mean of -(t*log(x) + (1-t)*log(1-x)).
BCEElem(x, t) == IF t = One THEN NegLog(x) ELSE NegLog(One - x)
BCELoss(input, tgt) ==
    SumSeq([j \in 1..Len(input) |-> BCEElem(input[j], tgt[j])]) \div Len(input)

\* loss.backward(): the gradient of this batch, to be ADDED to the pending one.
GradOf(out, tgt) ==
    SumSeq([j \in 1..Len(out) |->
              IF out[j] > tgt[j] THEN 1 ELSE IF out[j] < tgt[j] THEN -1 ELSE 0])

\* optimizer.step(): the parameters moved against the pending gradient.
SGDStep(p, g) == (p - g) % Len(Probs)

\* ------------------------------------------------------------- set_value_
set_value_le(item) == IF item <= Half THEN 0 ELSE One

set_value_(item) == IF item < Half THEN 0 ELSE One

\* Tensor.apply_(f): applies f to every element IN PLACE and returns the
\* same tensor.
Apply_(tensor) == [j \in 1..Len(tensor) |-> set_value_(tensor[j])]

\* pred.eq(target.view_as(pred)).sum().item()
EqCountBroadcast(p, tgt) ==
    Cardinality({<<j, k>> \in (1..Len(p)) \X (1..Len(tgt)) : p[j] = tgt[k]})

EqCount(p, tgt) == Cardinality({j \in 1..Len(p) : p[j] = tgt[j]})

\* ------------------------------------------------------------------ state
VARIABLES
    pc,             \* position of the process
    args,           \* the parsed command line (read-only)
    epoch,          \* loop variable of task() / argument of train()
    calls,          \* the loop calls made so far, in order
    fileWritten,    \* torch.save wrote args.model_name
    uploaded,       \* data_utils.save_model was called
    failedAt,       \* the position of the first unhandled failure, or "none"
    params,         \* the parameters of net
    grad,           \* the pending gradient (0 = cleared)
    mode,           \* net.train() / net.eval()
    train_len,      \* len(train_loader)
    test_set,       \* the examples test_loader covers
    batch_index,    \* train(): batches fetched so far in this call
    features,       \* data['features'] of the current batch
    target,         \* data['target'] of the current batch
    outputs,        \* train(): outputs
    loss,           \* train(): loss.item()
    running_loss,   \* train(): running_loss
    lossHist,       \* the losses of this call's batches, in order
    steps,          \* the steps done on the current training batch
    updates,        \* optimizer steps in this call of train()
    trainReports,   \* the progress reports this call of train() printed
    i,              \* test(): batches fetched so far in this call
    output,         \* test(): the tensor output (pred is the same tensor)
    fwd,            \* test(): what the forward pass returned
    lossArg,        \* test(): the input handed to criterion
    test_loss,      \* test(): test_loss
    correct,        \* test(): correct
    testReports,    \* the evaluation reports printed
    paramsAtEntry,  \* the parameters when test() was entered
    item,           \* set_value_: the argument
    binResult       \* set_value_: the value returned, or -1

vars == <<pc, args, epoch, calls, fileWritten, uploaded, failedAt, params, grad,
          mode, train_len, test_set, batch_index, features, target,
          outputs, loss, running_loss, lossHist, steps, updates, trainReports,
          i, output, fwd, lossArg, test_loss, correct, testReports,
          paramsAtEntry, item, binResult>>

taskVars == <<args, fileWritten, uploaded, failedAt>>
dataVars == <<train_len, test_set>>
netVars == <<params, grad, mode>>
trainVars == <<batch_index, outputs, loss, running_loss, lossHist, steps,
               updates, trainReports>>
testVars == <<i, output, fwd, lossArg, test_loss, correct, testReports,
              paramsAtEntry>>
binVars == <<item, binResult>>

\* ------------------------------------------------------------------ train()
\* The batches train_loader can yield: full batches of examples.
TrainExamples == {e \in Examples : e.features = 0}
TrainBatches == {s \in SeqsUpTo(TrainExamples, args.batch_size) : Len(s) = args.batch_size}

\* lines 24-28: net.train(); criterion; running_loss = 0.0
TrainBeginKeepLoss ==
    /\ pc = "train_entry"
    /\ calls' = Append(calls, <<"train", epoch>>)
    /\ mode' = "train"
    /\ batch_index' = -1
    /\ lossHist' = <<>>
    /\ steps' = <<>>
    /\ updates' = 0
    /\ trainReports' = <<>>
    /\ pc' = "train_iter"
    /\ UNCHANGED <<epoch, taskVars, dataVars, params, grad, features, target,
                   outputs, loss, running_loss, testVars, binVars>>

TrainBegin ==
    /\ pc = "train_entry"
    /\ calls' = Append(calls, <<"train", epoch>>)
    /\ mode' = "train"
    /\ running_loss' = 0
    /\ batch_index' = -1
    /\ lossHist' = <<>>
    /\ steps' = <<>>
    /\ updates' = 0
    /\ trainReports' = <<>>
    /\ pc' = "train_iter"
    /\ UNCHANGED <<epoch, taskVars, dataVars, params, grad, features, target,
                   outputs, loss, testVars, binVars>>

\* lines 30-32: the loop header fetches the next batch, or the loop ends
TrainFetch ==
    /\ pc = "train_iter"
    /\ IF batch_index + 1 < train_len
       THEN /\ \E data \in TrainBatches :
                  /\ features' = FeaturesOf(data)
                  /\ target' = TargetOf(data)
            /\ batch_index' = batch_index + 1
            /\ steps' = <<>>
            /\ pc' = "zero_grad"
       ELSE /\ pc' = "train_ret"
            /\ UNCHANGED <<batch_index, features, target, steps>>
    /\ UNCHANGED <<epoch, calls, taskVars, dataVars, netVars, outputs, loss,
                   running_loss, lossHist, updates, trainReports, testVars,
                   binVars>>

\* line 35: optimizer.zero_grad()
TrainZeroGradNoClear ==
    /\ pc = "zero_grad"
    /\ steps' = Append(steps, "zero_grad")
    /\ pc' = "forward"
    /\ UNCHANGED <<epoch, calls, taskVars, dataVars, netVars, batch_index,
                   features, target, outputs, loss, running_loss, lossHist,
                   updates, trainReports, testVars, binVars>>

TrainZeroGrad ==
    /\ pc = "zero_grad"
    /\ grad' = 0
    /\ steps' = Append(steps, "zero_grad")
    /\ pc' = "forward"
    /\ UNCHANGED <<epoch, calls, taskVars, dataVars, params, mode, batch_index,
                   features, target, outputs, loss, running_loss, lossHist,
                   updates, trainReports, testVars, binVars>>

\* line 37: outputs = net(features)
TrainForward ==
    /\ pc = "forward"
    /\ outputs' = Forward(params, features)
    /\ steps' = Append(steps, "forward")
    /\ pc' = "loss"
    /\ UNCHANGED <<epoch, calls, taskVars, dataVars, netVars, batch_index,
                   features, target, loss, running_loss, lossHist, updates,
                   trainReports, testVars, binVars>>

\* line 38: loss = criterion(outputs, target)
TrainLoss ==
    /\ pc = "loss"
    /\ loss' = BCELoss(outputs, target)
    /\ steps' = Append(steps, "loss")
    /\ pc' = "backward"
    /\ UNCHANGED <<epoch, calls, taskVars, dataVars, netVars, batch_index,
                   features, target, outputs, running_loss, lossHist, updates,
                   trainReports, testVars, binVars>>

\* line 39: loss.backward() accumulates into the pending gradient
TrainBackward ==
    /\ pc = "backward"
    /\ grad' = grad + GradOf(outputs, target)
    /\ steps' = Append(steps, "backward")
    /\ pc' = "step"
    /\ UNCHANGED <<epoch, calls, taskVars, dataVars, params, mode, batch_index,
                   features, target, outputs, loss, running_loss, lossHist,
                   updates, trainReports, testVars, binVars>>

\* line 40: optimizer.step()
TrainStep ==
    /\ pc = "step"
    /\ params' = SGDStep(params, grad)
    /\ updates' = updates + 1
    /\ steps' = Append(steps, "step")
    /\ pc' = "stats"
    /\ UNCHANGED <<epoch, calls, taskVars, dataVars, grad, mode, batch_index,
                   features, target, outputs, loss, running_loss, lossHist,
                   trainReports, testVars, binVars>>

\* lines 43-47: running_loss += loss.item(); report and reset every 6th batch
TrainStats ==
    /\ pc = "stats"
    /\ lossHist' = Append(lossHist, loss)
    /\ IF batch_index % ReportEvery = ReportEvery - 1
       THEN /\ trainReports' = Append(trainReports,
                  [epoch |-> epoch, batch |-> batch_index + 1,
                   value |-> (running_loss + loss) \div ReportEvery])
            /\ running_loss' = 0
       ELSE /\ running_loss' = running_loss + loss
            /\ UNCHANGED trainReports
    /\ pc' = "train_iter"
    /\ UNCHANGED <<epoch, calls, taskVars, dataVars, netVars, batch_index,
                   features, target, outputs, loss, steps, updates, testVars,
                   binVars>>

TrainNext ==
    \/ TrainBegin \/ TrainFetch \/ TrainZeroGrad \/ TrainForward
    \/ TrainLoss \/ TrainBackward \/ TrainStep \/ TrainStats

\* ------------------------------------------------------------------- test()
\* len(test_loader), test_loader.batch_size and len(test_loader.dataset)
TestLoaderLen == LoaderLen(Len(test_set), args.batch_size)
TestDatasetLen == Len(test_set)

\* lines 58-63: net.eval(); criterion; test_loss = 0; correct = 0
TestBeginNoReset ==
    /\ pc = "test_entry"
    /\ calls' = Append(calls, <<"test">>)
    /\ paramsAtEntry' = params
    /\ mode' = "eval"
    /\ test_loss' = 0
    /\ i' = -1
    /\ pc' = "test_iter"
    /\ UNCHANGED <<epoch, taskVars, dataVars, params, grad, features, target,
                   trainVars, output, fwd, lossArg, correct, testReports,
                   binVars>>

TestBegin ==
    /\ pc = "test_entry"
    /\ calls' = Append(calls, <<"test">>)
    /\ paramsAtEntry' = params
    /\ mode' = "eval"
    /\ test_loss' = 0
    /\ correct' = 0
    /\ i' = -1
    /\ pc' = "test_iter"
    /\ UNCHANGED <<epoch, taskVars, dataVars, params, grad, features, target,
                   trainVars, output, fwd, lossArg, testReports, binVars>>

\* lines 66-68: the loop header fetches the next batch, or the loop ends
TestFetch ==
    /\ pc = "test_iter"
    /\ IF i + 1 < TestLoaderLen
       THEN LET data == LoaderBatch(test_set, args.batch_size, i + 1)
            IN  /\ features' = FeaturesOf(data)
                /\ target' = TargetOf(data)
                /\ i' = i + 1
                /\ pc' = "test_forward"
       ELSE /\ pc' = "test_report"
            /\ UNCHANGED <<i, features, target>>
    /\ UNCHANGED <<epoch, calls, taskVars, dataVars, netVars, trainVars,
                   output, fwd, lossArg, test_loss, correct, testReports,
                   paramsAtEntry, binVars>>

\* line 69: output = net(features)
TestForward ==
    /\ pc = "test_forward"
    /\ output' = Forward(params, features)
    /\ fwd' = Forward(params, features)
    /\ pc' = "binarize"
    /\ UNCHANGED <<epoch, calls, taskVars, dataVars, netVars, features, target,
                   trainVars, i, lossArg, test_loss, correct, testReports,
                   paramsAtEntry, binVars>>

\* line 71: pred = output.apply_(set_value_): output itself is overwritten,
\* and pred names the same tensor
TestBinarize ==
    /\ pc = "binarize"
    /\ output' = Apply_(output)
    /\ pc' = "test_loss"
    /\ UNCHANGED <<epoch, calls, taskVars, dataVars, netVars, features, target,
                   trainVars, i, fwd, lossArg, test_loss, correct, testReports,
                   paramsAtEntry, binVars>>

\* line 73: test_loss += criterion(output, target)
TestLossWithStep ==
    /\ pc = "test_loss"
    /\ lossArg' = output
    /\ test_loss' = test_loss + BCELoss(output, target)
    /\ params' = SGDStep(params, GradOf(fwd, target))
    /\ pc' = "test_correct"
    /\ UNCHANGED <<epoch, calls, taskVars, dataVars, grad, mode, features,
                   target, trainVars, i, output, fwd, correct, testReports,
                   paramsAtEntry, binVars>>

TestLoss ==
    /\ pc = "test_loss"
    /\ lossArg' = output
    /\ test_loss' = test_loss + BCELoss(output, target)
    /\ pc' = "test_correct"
    /\ UNCHANGED <<epoch, calls, taskVars, dataVars, netVars, features, target,
                   trainVars, i, output, fwd, correct, testReports,
                   paramsAtEntry, binVars>>

\* line 75: correct += pred.eq(target.view_as(pred)).sum().item()
TestCorrectBroadcast ==
    /\ pc = "test_correct"
    /\ correct' = correct + EqCountBroadcast(output, target)
    /\ pc' = "test_iter"
    /\ UNCHANGED <<epoch, calls, taskVars, dataVars, netVars, features, target,
                   trainVars, i, output, fwd, lossArg, test_loss, testReports,
                   paramsAtEntry, binVars>>

TestCorrect ==
    /\ pc = "test_correct"
    /\ correct' = correct + EqCount(output, target)
    /\ pc' = "test_iter"
    /\ UNCHANGED <<epoch, calls, taskVars, dataVars, netVars, features, target,
                   trainVars, i, output, fwd, lossArg, test_loss, testReports,
                   paramsAtEntry, binVars>>

\* lines 77-82: test_loss /= len(test_loader.dataset); print loss and accuracy.
\* Dividing by an empty dataset raises ZeroDivisionError.
TestReport ==
    /\ pc = "test_report"
    /\ IF TestDatasetLen = 0
       THEN /\ pc' = "crashed"
            /\ failedAt' = "test_report"
            /\ UNCHANGED <<test_loss, testReports>>
       ELSE /\ test_loss' = test_loss \div TestDatasetLen
            /\ testReports' = Append(testReports,
                  [loss |-> test_loss \div TestDatasetLen,
                   correct |-> correct,
                   total |-> TestLoaderLen * args.batch_size])
            /\ pc' = "test_ret"
            /\ UNCHANGED failedAt
    /\ UNCHANGED <<epoch, calls, args, fileWritten, uploaded, dataVars, netVars,
                   features, target, trainVars, i, output, fwd, lossArg,
                   correct, paramsAtEntry, binVars>>

TestNext ==
    \/ TestBegin \/ TestFetch \/ TestForward \/ TestBinarize
    \/ TestLoss \/ TestCorrect \/ TestReport

\* ------------------------------------------------------------------- task()
\* Python's None, and the truth value of an optional string
NoneValue == "<None>"
Truthy(v) == v \notin {NoneValue, ""}

ModelNames == {"", "sonar_model"}
ModelDirs == {NoneValue, "", "gs://bucket/sonar"}

\* The evaluation sets and parameter initialisations load_data and SonarDNN
\* can produce.
TestSets == SeqsUpTo(Examples, MaxTest)
TaskTestSets == SeqsUpTo(TrainExamples, MaxTaskTest)

\* lines 88-97: seed, load_data, SonarDNN().double(), optim.SGD
TaskLoad ==
    /\ pc = "start"
    /\ train_len' \in 0..MaxTaskTrainBatches
    /\ test_set' \in TaskTestSets
    /\ params' \in ParamValues
    /\ grad' = 0
    /\ mode' = "train"
    /\ pc' = "epoch_loop"
    /\ UNCHANGED <<epoch, calls, taskVars, features, target, trainVars,
                   testVars, binVars>>

\* line 100: for epoch in range(1, args.epochs + 1)
TaskEpochLoop ==
    /\ pc = "epoch_loop"
    /\ IF epoch < args.epochs
       THEN /\ epoch' = epoch + 1
            /\ pc' = "train_entry"
       ELSE /\ pc' = "persist"
            /\ UNCHANGED epoch
    /\ UNCHANGED <<calls, taskVars, dataVars, netVars, features, target,
                   trainVars, testVars, binVars>>

\* lines 101-102: train() has returned, test(net, test_loader) is called
TaskAfterTrainSkipTest ==
    /\ pc = "train_ret"
    /\ pc' = "epoch_loop"
    /\ UNCHANGED <<epoch, calls, taskVars, dataVars, netVars, features, target,
                   trainVars, testVars, binVars>>

TaskAfterTrain ==
    /\ pc = "train_ret"
    /\ pc' = "test_entry"
    /\ UNCHANGED <<epoch, calls, taskVars, dataVars, netVars, features, target,
                   trainVars, testVars, binVars>>

\* lines 102, 100: test() has returned, back to the loop header
TaskAfterTest ==
    /\ pc = "test_ret"
    /\ pc' = "epoch_loop"
    /\ UNCHANGED <<epoch, calls, taskVars, dataVars, netVars, features, target,
                   trainVars, testVars, binVars>>

\* line 104: if args.model_name
TaskPersist ==
    /\ pc = "persist"
    /\ pc' = IF Truthy(args.model_name) THEN "save" ELSE "done"
    /\ UNCHANGED <<epoch, calls, taskVars, dataVars, netVars, features, target,
                   trainVars, testVars, binVars>>

\* lines 106-108: torch.save(net.state_dict(), args.model_name); if args.model_dir
TaskSaveAlwaysUpload ==
    /\ pc = "save"
    /\ fileWritten' = TRUE
    /\ pc' = "upload"
    /\ UNCHANGED <<epoch, calls, args, uploaded, failedAt, dataVars, netVars,
                   features, target, trainVars, testVars, binVars>>

TaskSave ==
    /\ pc = "save"
    /\ fileWritten' = TRUE
    /\ pc' = IF Truthy(args.model_dir) THEN "upload" ELSE "done"
    /\ UNCHANGED <<epoch, calls, args, uploaded, failedAt, dataVars, netVars,
                   features, target, trainVars, testVars, binVars>>

\* line 110: data_utils.save_model(args.model_dir, args.model_name)
TaskUpload ==
    /\ pc = "upload"
    /\ uploaded' = TRUE
    /\ pc' = "done"
    /\ UNCHANGED <<epoch, calls, args, fileWritten, failedAt, dataVars, netVars,
                   features, target, trainVars, testVars, binVars>>

\* The positions whose operation can raise: data loading, a tensor library
\* call on a batch, serialization, upload.  task() has no try/except
\* (lines 85-110), so the exception leaves task() and ends the process.
FailPoints == {"start", "train_iter", "forward", "loss", "backward", "step",
               "test_iter", "test_forward", "binarize", "test_loss",
               "test_correct", "save", "upload"}

FailSwallowed ==
    /\ pc \in FailPoints
    /\ failedAt = "none"
    /\ failedAt' = pc
    /\ UNCHANGED <<pc, epoch, calls, args, fileWritten, uploaded, dataVars,
                   netVars, features, target, trainVars, testVars, binVars>>

Fail ==
    /\ pc \in FailPoints
    /\ pc' = "crashed"
    /\ failedAt' = pc
    /\ UNCHANGED <<epoch, calls, args, fileWritten, uploaded, dataVars,
                   netVars, features, target, trainVars, testVars, binVars>>

TaskNext ==
    \/ TaskLoad \/ TaskEpochLoop \/ TaskAfterTrain \/ TaskAfterTest
    \/ TaskPersist \/ TaskSave \/ TaskUpload \/ Fail

\* ---------------------------------------------------------- specifications
NoLocals ==
    /\ epoch = 0 /\ calls = <<>>
    /\ fileWritten = FALSE /\ uploaded = FALSE /\ failedAt = "none"
    /\ grad = 0
    /\ batch_index = -1 /\ features = <<>> /\ target = <<>>
    /\ outputs = <<>> /\ loss = 0 /\ running_loss = 0 /\ lossHist = <<>>
    /\ steps = <<>> /\ updates = 0 /\ trainReports = <<>>
    /\ i = -1 /\ output = <<>> /\ fwd = <<>> /\ lossArg = <<>>
    /\ test_loss = 0 /\ correct = 0 /\ testReports = <<>>

\* The process at the entry of task(args), for every command line.
Init ==
    /\ pc = "start"
    /\ args \in [epochs : (-1)..MaxEpochs, model_name : ModelNames,
                 model_dir : ModelDirs, batch_size : 1..MaxBatchSize]
    /\ train_len = 0 /\ test_set = <<>>
    /\ params = 0 /\ mode = "train" /\ paramsAtEntry = 0
    /\ item = 0 /\ binResult = -1
    /\ NoLocals

Next == TaskNext \/ TrainNext \/ TestNext

Spec == Init /\ [][Next]_vars

\* train() called for epochs 1..MaxEpochs on a loader of every length.
InitTrain ==
    /\ pc = "train_call"
    /\ args = [epochs |-> MaxEpochs, model_name |-> "", model_dir |-> NoneValue,
               batch_size |-> 1]
    /\ train_len \in 0..MaxTrainBatches
    /\ test_set = <<>>
    /\ params \in ParamValues /\ mode \in {"train", "eval"} /\ paramsAtEntry = 0
    /\ item = 0 /\ binResult = -1
    /\ NoLocals

TrainCall ==
    /\ pc \in {"train_call", "train_ret"}
    /\ epoch < args.epochs
    /\ epoch' = epoch + 1
    /\ pc' = "train_entry"
    /\ UNCHANGED <<calls, taskVars, dataVars, netVars, features, target,
                   trainVars, testVars, binVars>>

NextTrain == TrainCall \/ TrainNext

SpecTrain == InitTrain /\ [][NextTrain]_vars

\* test() called twice in a row on every model and evaluation set.
EvalRuns == 2

InitEval ==
    /\ pc = "test_call"
    /\ args \in [epochs : {0}, model_name : {""}, model_dir : {NoneValue},
                 batch_size : 1..MaxBatchSize]
    /\ train_len = 0
    /\ test_set \in TestSets
    /\ params \in ParamValues /\ mode \in {"train", "eval"}
    /\ paramsAtEntry = params
    /\ item = 0 /\ binResult = -1
    /\ NoLocals

TestCall ==
    /\ pc \in {"test_call", "test_ret"}
    /\ Len(testReports) < EvalRuns
    /\ pc' = "test_entry"
    /\ UNCHANGED <<epoch, calls, taskVars, dataVars, netVars, features, target,
                   trainVars, testVars, binVars>>

NextEval == TestCall \/ TestNext

SpecEval == InitEval /\ [][NextEval]_vars

\* set_value_ called on every value in [0, 1].
InitBin ==
    /\ pc = "bin_call"
    /\ args = [epochs |-> 0, model_name |-> "", model_dir |-> NoneValue,
               batch_size |-> 1]
    /\ train_len = 0 /\ test_set = <<>>
    /\ params = 0 /\ mode = "train" /\ paramsAtEntry = 0
    /\ item \in 0..One /\ binResult = -1
    /\ NoLocals

SetValueCall ==
    /\ pc = "bin_call"
    /\ binResult' = set_value_(item)
    /\ pc' = "bin_ret"
    /\ UNCHANGED <<args, epoch, calls, fileWritten, uploaded, failedAt,
                   dataVars, netVars, features, target, trainVars, testVars,
                   item>>

NextBin == SetValueCall

SpecBin == InitBin /\ [][NextBin]_vars

\* ------------------------------------------------------------------ claims
TrainPcs == {"train_iter", "zero_grad", "forward", "loss", "backward", "step",
             "stats", "train_ret"}
TestPcs == {"test_iter", "test_forward", "binarize", "test_loss",
            "test_correct", "test_report", "test_ret"}

\* range(1, args.epochs + 1) is empty for a count below 1
EpochCount == IF args.epochs < 0 THEN 0 ELSE args.epochs

ExpectedCalls(n) ==
    [k \in 1..(2 * n) |->
        IF k % 2 = 1 THEN <<"train", (k + 1) \div 2>> ELSE <<"test">>]

\* C1: the loop calls task() makes are, at every moment, a prefix of
\* train(1), test, train(2), test, ..., train(N), test, and the whole of it
\* once the loop is left; a training pass starts only when every earlier
\* epoch's evaluation has reported, an evaluation only right after the
\* training pass of its epoch.
C1_CallSequence ==
    /\ Len(calls) <= 2 * EpochCount
    /\ calls = SubSeq(ExpectedCalls(EpochCount), 1, Len(calls))
    /\ pc \in {"persist", "save", "upload", "done"}
          => calls = ExpectedCalls(EpochCount) /\ Len(testReports) = EpochCount
    /\ pc \in TrainPcs => Len(calls) = 2 * epoch - 1 /\ Len(testReports) = epoch - 1
    /\ pc \in TestPcs \ {"test_ret"} => Len(calls) = 2 * epoch /\ Len(testReports) = epoch - 1

C1_Witness ==
    /\ pc = "done"
    /\ args.epochs = MaxEpochs
    /\ Len(calls) = 2 * MaxEpochs
    /\ train_len > 0

\* C2: in test(), the input handed to the loss criterion for a batch is the
\* tensor of probabilities the forward pass returned for that batch.
C2_LossOnUnbinarized ==
    pc = "test_correct" => lossArg = fwd

\* The process is inside test(), has just returned from it, or failed in it.
InTest ==
    \/ pc \in TestPcs
    \/ pc = "crashed" /\ failedAt \in TestPcs

C3_ParamsInTest == InTest => params = paramsAtEntry

\* C3: while test() runs, and when it has returned or failed, the parameters
\* equal the parameters at its entry; and after the model's construction
\* only the optimizer step of train() changes the parameters.
C3_EvalReadOnly ==
    /\ []C3_ParamsInTest
    /\ [][(pc # "start" /\ params' # params) => pc = "step"]_vars

C3_Witness ==
    /\ pc = "test_ret"
    /\ i >= 0
    /\ epoch = MaxEpochs
    /\ updates >= 1
    /\ test_loss > 0

\* data_utils.save_model was called, whether it returned or raised.
UploadAttempted == uploaded \/ failedAt = "upload"

\* C4: the model file is written, and the upload made, only when every
\* epoch's evaluation has reported; when task() ends normally the file was
\* written iff args.model_name is non-empty and the upload was made iff
\* args.model_name is non-empty and args.model_dir is set (given and
\* non-empty); an upload is never attempted without the file written.
C4_Persistence ==
    /\ (fileWritten \/ UploadAttempted \/ pc \in {"save", "upload"})
          => /\ calls = ExpectedCalls(EpochCount)
             /\ Len(testReports) = EpochCount
             /\ Truthy(args.model_name)
    /\ UploadAttempted \/ pc = "upload"
          => fileWritten /\ Truthy(args.model_dir)
    /\ pc = "done"
          => /\ fileWritten <=> Truthy(args.model_name)
             /\ uploaded <=> Truthy(args.model_name) /\ Truthy(args.model_dir)

C4_Witness ==
    /\ pc = "done"
    /\ args.epochs = MaxEpochs
    /\ fileWritten
    /\ uploaded

\* C5: for every o in [0, 1), set_value_(o) is 0.0 when o < 0.5 and 1.0
\* otherwise; set_value_(0.5) is 1.0.
C5_Binarize ==
    (pc = "bin_ret" /\ item < One)
        => /\ item < Half => binResult = 0
           /\ item >= Half => binResult = One
           /\ item = Half => binResult = One

C5_Witness ==
    /\ pc = "bin_ret"
    /\ item = Half
    /\ binResult = One

\* The batches of this call whose statistics are done, and the losses of
\* those after the last multiple of 6.
CompletedBatches == Len(lossHist)
SinceLastReport ==
    SubSeq(lossHist,
           CompletedBatches - (CompletedBatches % ReportEvery) + 1,
           CompletedBatches)

\* C6: in train(), running_loss is 0 when the first batch of an epoch is
\* fetched and right after each report; the reports of the epoch are exactly
\* one per completed batch whose 1-based index is a multiple of 6, each the
\* sum of the losses of the 6 batches of this epoch ending there divided by
\* 6; between reports running_loss is the sum of the losses since the last
\* report of the same epoch.
C6_RunningLoss ==
    pc \in TrainPcs =>
        LET reports == trainReports
        IN  /\ batch_index = -1 => running_loss = 0
            /\ Len(reports) = CompletedBatches \div ReportEvery
            /\ \A m \in 1..Len(reports) :
                  /\ reports[m].epoch = epoch
                  /\ reports[m].batch = ReportEvery * m
                  /\ reports[m].value =
                        SumSeq(SubSeq(lossHist, ReportEvery * (m - 1) + 1,
                                      ReportEvery * m)) \div ReportEvery
            /\ pc \in {"train_iter", "train_ret"}
                  => running_loss = SumSeq(SinceLastReport)
            /\ (pc = "train_iter" /\ CompletedBatches % ReportEvery = 0)
                  => running_loss = 0

C6_Witness ==
    /\ pc = "train_ret"
    /\ epoch = MaxEpochs
    /\ train_len = MaxTrainBatches
    /\ Len(trainReports) >= 1
    /\ CompletedBatches % ReportEvery # 0
    /\ running_loss > 0

\* C7: two calls of test() in a row on the same model and evaluation set
\* print the same loss and the same accuracy, and leave the parameters as
\* they were.
C7_EvalRepeatable ==
    Len(testReports) = EvalRuns =>
        /\ testReports[1] = testReports[EvalRuns]
        /\ params = paramsAtEntry

C7_Witness ==
    /\ Len(testReports) = EvalRuns
    /\ testReports[1].correct > 0
    /\ testReports[1].loss > 0
    /\ Len(test_set) = MaxTest

\* The examples of the evaluation set the model classifies correctly.
PredictionOf(e) == set_value_(Forward(params, <<e.features>>)[1])
CorrectExamples ==
    Cardinality({j \in 1..Len(test_set) : PredictionOf(test_set[j]) = test_set[j].target})

\* C8: test() prints correct / (len(test_loader) * batch_size), where correct
\* is the number of examples of the evaluation set whose binarized prediction
\* equals the target, and 0 <= correct <= len(test_loader) * batch_size, also
\* when the last batch is short.
C8_Accuracy ==
    /\ pc \in TestPcs => 0 <= correct /\ correct <= TestLoaderLen * args.batch_size
    /\ (pc = "test_ret" /\ Len(test_set) >= 1) =>
          LET r == testReports[Len(testReports)]
          IN  /\ r.total = TestLoaderLen * args.batch_size
              /\ r.correct = CorrectExamples
              /\ 0 <= r.correct /\ r.correct <= r.total
              /\ 0 <= 100 * r.correct /\ 100 * r.correct <= 100 * r.total

C8_Witness ==
    /\ pc = "test_ret"
    /\ Len(test_set) % args.batch_size # 0
    /\ TestLoaderLen >= 2
    /\ testReports[Len(testReports)].correct = Len(test_set)

\* What a failed process has and has not done.
C9_FailedState ==
    /\ failedAt # "none" <=> pc = "crashed"
    /\ (pc = "crashed" /\ failedAt \notin {"save", "upload"})
          => ~fileWritten /\ ~uploaded
    /\ failedAt = "save" => ~fileWritten /\ ~uploaded
    /\ (pc = "crashed" /\ failedAt \in (TrainPcs \cup TestPcs))
          => Len(calls) \in {2 * epoch - 1, 2 * epoch}

\* C9: a failure is never handled: the process is in its failed state iff a
\* failure happened, and from then on nothing changes (no later step, no
\* retry); so a failure before serialization leaves no file and no upload,
\* and a failed serialization no upload.
C9_FailFast ==
    /\ []C9_FailedState
    /\ [][pc = "crashed" => UNCHANGED vars]_vars

C9_Witness ==
    /\ pc = "crashed"
    /\ failedAt = "step"
    /\ epoch = 1
    /\ args.epochs = MaxEpochs
    /\ Truthy(args.model_name)
    /\ Truthy(args.model_dir)

StepOrder == <<"zero_grad", "forward", "loss", "backward", "step">>

\* C10: on every training batch the steps are zero_grad, forward, loss,
\* backward, step, in this order and once each; backward starts from a
\* cleared gradient, so step applies the gradient of this batch alone; and
\* when train() returns the number of optimizer steps is the number of
\* batches.
C10_StepOrder ==
    pc \in TrainPcs =>
        /\ Len(steps) <= Len(StepOrder)
        /\ steps = SubSeq(StepOrder, 1, Len(steps))
        /\ pc = "stats" => steps = StepOrder
        /\ pc = "backward" => grad = 0
        /\ pc = "step" => grad = GradOf(outputs, target)
        /\ pc \in {"train_iter", "train_ret"} => updates = CompletedBatches
        /\ pc = "train_ret" => updates = train_len

C10_Witness ==
    /\ pc = "train_ret"
    /\ epoch = MaxEpochs
    /\ updates = MaxTrainBatches
    /\ grad # 0

=============================================================================
